---- MODULE Spec2Model ----
(***************************************************************************)
(* A model of gdb_extracted.py: ingestion of a GDB CSV extract into        *)
(* per-trace point lists (fillFromFile), the batch orchestrator            *)
(* (pathMatch) and the command-line driver (main).                         *)
(*                                                                         *)
(* Python strings are TLA+ strings; the string operations of the program   *)
(* (readline, startswith, split, int, float, strptime, string comparison)  *)
(* are computed character by character.  The topology store, the matching  *)
(* engine and the report writer are external: their calls are recorded in  *)
(* the sequence `calls`.                                                   *)
(***************************************************************************)
EXTENDS Integers, Sequences, FiniteSets, TLC

(***************************************************************************)
(* Bounds of the model.                                                    *)
(***************************************************************************)
\* the largest number of text chunks (rows, blank lines) after the expected
\* header
MaxRows == 3

\* the largest number of text chunks after any other first line
MaxRowsOther == 1

(***************************************************************************)
(* Python values.                                                          *)
(***************************************************************************)
\* the value None
None == [t |-> "None"]

\* a str object
PyStr(s) == [t |-> "str", v |-> s]

\* an int object
PyInt(n) == [t |-> "int", v |-> n]

\* a dict (a function from its keys)
PyDict(d) == [t |-> "dict", d |-> d]

\* a set or list given as the allow-list: the set of its members
PySet(items) == [t |-> "set", items |-> items]

\* the empty dict {}
EmptyDict == << >>

(***************************************************************************)
(* Characters and strings.                                                 *)
(***************************************************************************)
\* the characters the model's inputs use, in ascending ASCII order
Ascii == "\t\n (),-./0123456789:ABCDEFGHIJKLMNOPQRSTUVWXYZ_abcdefghijklmnopqrstuvwxyz"

\* the i-th character of s (1-based)
CharAt(s, i) == SubSeq(s, i, i)

RECURSIVE FirstIn(_, _, _, _)
\* the position of the first c in s[lo..hi], 0 when there is none; the
\* characters are looked at from the left, up to the first c
FirstIn(s, c, lo, hi) ==
    IF lo > hi THEN 0
    ELSE IF lo = hi THEN (IF CharAt(s, lo) = c THEN lo ELSE 0)
    ELSE LET mid == (lo + hi) \div 2
             left == FirstIn(s, c, lo, mid)
         IN  IF left # 0 THEN left ELSE FirstIn(s, c, mid + 1, hi)

\* the position of the first c in s at or after i, 0 when there is none
indexFrom(s, c, i) == FirstIn(s, c, i, Len(s))

\* function f as an explicit table: the values are computed once, when the
\* table is built, and looked up afterwards
Table(f) == f @@ << >>

\* the rank of each character, ascending as its ASCII code
OrdTable ==
    Table([c \in { CharAt(Ascii, i) : i \in 1..Len(Ascii) } |-> indexFrom(Ascii, c, 1)])

Ord(c) == OrdTable[c]

\* s[i:] (0-based i)
From(s, i) == SubSeq(s, i + 1, Len(s))

\* s.startswith(prefix)
startswith(s, prefix) ==
    /\ Len(s) >= Len(prefix)
    /\ SubSeq(s, 1, Len(prefix)) = prefix

RECURSIVE split(_, _)
\* s.split(sep) for a one-character sep
split(s, sep) ==
    LET i == indexFrom(s, sep, 1)
    IN  IF i = 0 THEN << s >>
        ELSE << SubSeq(s, 1, i - 1) >> \o split(From(s, i), sep)

\* file.readline(): up to and including the next line terminator, or the
\* rest of the text when there is none ("" at end of file)
readline(text) ==
    LET i == indexFrom(text, "\n", 1)
    IN  IF i = 0 THEN text ELSE SubSeq(text, 1, i)

RECURSIVE StrLess(_, _)
\* a < b for str objects (lexicographic on character codes)
StrLess(a, b) ==
    IF Len(b) = 0 THEN FALSE
    ELSE IF Len(a) = 0 THEN TRUE
    ELSE IF CharAt(a, 1) = CharAt(b, 1) THEN StrLess(From(a, 1), From(b, 1))
    ELSE Ord(CharAt(a, 1)) < Ord(CharAt(b, 1))

\* whitespace as str.strip() and int() see it
IsSpace(c) == c \in {" ", "\n", "\t"}

RECURSIVE lstrip(_)
lstrip(s) == IF Len(s) > 0 /\ IsSpace(CharAt(s, 1)) THEN lstrip(From(s, 1)) ELSE s

RECURSIVE rstrip(_)
rstrip(s) ==
    IF Len(s) > 0 /\ IsSpace(CharAt(s, Len(s)))
    THEN rstrip(SubSeq(s, 1, Len(s) - 1)) ELSE s

strip(s) == lstrip(rstrip(s))

(***************************************************************************)
(* Conversions.  A conversion yields [ok |-> TRUE, v |-> value] or, where  *)
(* Python raises ValueError, [ok |-> FALSE].                               *)
(***************************************************************************)
Failed == [ok |-> FALSE]
Ok(v) == [ok |-> TRUE, v |-> v]

Digits == "0123456789"
IsDigit(c) == indexFrom(Digits, c, 1) > 0
DigitVal(c) == indexFrom(Digits, c, 1) - 1

RECURSIVE AllDigits(_)
AllDigits(s) == Len(s) = 0 \/ (IsDigit(CharAt(s, 1)) /\ AllDigits(From(s, 1)))

RECURSIVE DigitsValue(_)
\* the number a string of digits denotes
DigitsValue(s) ==
    IF Len(s) = 0 THEN 0
    ELSE 10 * DigitsValue(SubSeq(s, 1, Len(s) - 1)) + DigitVal(CharAt(s, Len(s)))

\* the sign prefix of a stripped numeric text
HasSign(s) == Len(s) > 0 /\ CharAt(s, 1) \in {"-", "+"}
Unsigned(s) == IF HasSign(s) THEN From(s, 1) ELSE s
IsNegative(s) == Len(s) > 0 /\ CharAt(s, 1) = "-"

\* int(text): surrounding whitespace is ignored, then an optional sign and
\* one or more digits
int(text) ==
    LET s == strip(text)
        d == Unsigned(s)
    IN  IF Len(d) > 0 /\ AllDigits(d)
        THEN Ok(IF IsNegative(s) THEN 0 - DigitsValue(d) ELSE DigitsValue(d))
        ELSE Failed

RECURSIVE StripZeros(_)
StripZeros(s) ==
    IF Len(s) > 0 /\ CharAt(s, Len(s)) = "0"
    THEN StripZeros(SubSeq(s, 1, Len(s) - 1)) ELSE s

\* float(text) for plain decimal texts (sign, digits, at most one point);
\* the value is kept as sign, whole part and fraction digits
float(text) ==
    LET s == strip(text)
        d == Unsigned(s)
        p == indexFrom(d, ".", 1)
        whole == IF p = 0 THEN d ELSE SubSeq(d, 1, p - 1)
        frac  == IF p = 0 THEN "" ELSE From(d, p)
    IN  IF /\ AllDigits(whole) /\ AllDigits(frac)
           /\ Len(whole) + Len(frac) > 0
        THEN Ok([neg |-> IsNegative(s) /\ (DigitsValue(whole) > 0 \/ StripZeros(frac) # ""),
                 whole |-> DigitsValue(whole), frac |-> StripZeros(frac)])
        ELSE Failed

\* a field of one or two digits (%m, %d, %H, %M, %S)
IsShortNumber(s) == Len(s) \in {1, 2} /\ AllDigits(s)

IsLeap(y) == (y % 4 = 0 /\ y % 100 # 0) \/ y % 400 = 0

DaysInMonth(y, m) ==
    IF m = 2 THEN (IF IsLeap(y) THEN 29 ELSE 28)
    ELSE IF m \in {4, 6, 9, 11} THEN 30 ELSE 31

\* datetime.strptime(text, '%m/%d/%Y %H:%M:%S') followed by the reduction
\* to the time of day: the value is <<hour, minute, second>>
strptimeTimeOfDay(text) ==
    LET parts == split(text, " ")
        date  == IF Len(parts) = 2 THEN split(parts[1], "/") ELSE << >>
        time  == IF Len(parts) = 2 THEN split(parts[2], ":") ELSE << >>
    IN  IF /\ Len(date) = 3 /\ Len(time) = 3
           /\ IsShortNumber(date[1]) /\ IsShortNumber(date[2])
           /\ Len(date[3]) = 4 /\ AllDigits(date[3])
           /\ \A i \in 1..3 : IsShortNumber(time[i])
           /\ DigitsValue(date[3]) >= 1
           /\ DigitsValue(date[1]) \in 1..12
           /\ DigitsValue(date[2]) \in 1..DaysInMonth(DigitsValue(date[3]), DigitsValue(date[1]))
           /\ DigitsValue(time[1]) \in 0..23
           /\ DigitsValue(time[2]) \in 0..59
           /\ DigitsValue(time[3]) \in 0..59
        THEN Ok(<< DigitsValue(time[1]), DigitsValue(time[2]), DigitsValue(time[3]) >>)
        ELSE Failed

(***************************************************************************)
(* Input files.  A file is one text: a first line followed by at most      *)
(* MaxRows chunks, each a data row, a blank line or a damaged row.         *)
(***************************************************************************)
\* the header fillFromFile expects
ExpectedHeader ==
    "OBJECTID,StudyId,GISFile,Datafile,UserId,DeviceId,VideoRecorded," \o
    "UtcDateTime,GPSDateTime,GPSDate,GPSTime,Bearing,SpeedMPH,HDOP," \o
    "Elevation,Latitude,Longitude,TimePeriodId,RouteId"

\* the header without its last column
HeaderMissingRouteId ==
    "OBJECTID,StudyId,GISFile,Datafile,UserId,DeviceId,VideoRecorded," \o
    "UtcDateTime,GPSDateTime,GPSDate,GPSTime,Bearing,SpeedMPH,HDOP," \o
    "Elevation,Latitude,Longitude,TimePeriodId"

\* the header with its last two columns exchanged
HeaderReordered ==
    "OBJECTID,StudyId,GISFile,Datafile,UserId,DeviceId,VideoRecorded," \o
    "UtcDateTime,GPSDateTime,GPSDate,GPSTime,Bearing,SpeedMPH,HDOP," \o
    "Elevation,Latitude,Longitude,RouteId,TimePeriodId"

\* the first lines of the model's files, other than the expected header
OtherFirstLines ==
    { ExpectedHeader \o ",Shape_Length\n",
      HeaderMissingRouteId \o "\n",
      HeaderReordered \o "\n" }

\* a data row of 19 columns, without its line terminator
Row(objectID, datafile, stamp, lat, lng, route) ==
    objectID \o ",1,g," \o datafile \o ",u,d,0,x," \o stamp \o ",x,x,0,0,1,0," \o
    lat \o "," \o lng \o ",1," \o route

Stamp1 == "11/6/2014 08:15:30"
Stamp2 == "11/07/2014 8:15:31"

\* the chunks a file's body is made of
Chunks ==
    { Row("3", "A", Stamp1, "30.25", "-97.75", "5") \o "\n",
      Row("1", "A", Stamp2, "30.5", "-97.50", "5") \o "\n",
      Row("2", "B", Stamp1, "30", "-97", "2") \o "\n",
      Row("4", "A", Stamp1, "30.25", "-97.75", "0") \o "\n",
      Row("5", "B", Stamp1, "30.25", "-97.75", "-1") \o "\n",
      Row("6", "A", Stamp1, "30.25", "-97.75", "5") \o ",7\n",
      Row("7", "B", "2014-11-06", "30.25", "-97.75", "2") \o "\n",
      "\n" }

RECURSIVE Bodies(_)
\* the texts made of at most n chunks
Bodies(n) ==
    IF n = 0 THEN { "" }
    ELSE Bodies(n - 1) \cup { b \o c : b \in Bodies(n - 1), c \in Chunks }

\* the contents a file can have when fillFromFile opens it
Files ==
    { ExpectedHeader \o "\n" \o b : b \in Bodies(MaxRows) }
    \cup { h \o b : h \in OtherFirstLines, b \in Bodies(MaxRowsOther) }

RECURSIVE readlines(_)
\* the lines of a text, each with its line terminator
readlines(text) ==
    IF Len(text) = 0 THEN << >>
    ELSE << readline(text) >> \o readlines(From(text, Len(readline(text))))

\* the allow-lists a caller of pathMatch passes
LimitMaps ==
    { None,
      PySet({}),
      PySet({ PyStr("A(5\n)") }),
      PySet({ PyStr("A(5\n)"), PyStr("B(2\n)") }),
      PySet({ PyStr("B(9)") }),
      PySet({ PyStr("B(2\n)"), PyInt(9) }) }

(***************************************************************************)
(* Pure parts of fillFromFile.                                             *)
(***************************************************************************)
\* a comparison of the whole first line instead of its beginning
HeaderOk_wholeLine(firstLine) == firstLine = ExpectedHeader \o "\n"

\* the sanity check of the first line (line 59)
HeaderOk(firstLine) == startswith(firstLine, ExpectedHeader)

\* a wrong header that is reported and then ignored
fillFromFile_onMismatch_continue == "continue"

\* what fillFromFile does once it has reported a wrong header (line 63)
fillFromFile_onMismatch == "return None"

\* a filter that lets route 0 through
KeepRow_nonNegative(routeID) == routeID >= 0

\* the rows that become records (line 70)
KeepRow(routeID) == routeID > 0

\* the projection capability of the graph, external: an uninterpreted
\* application to its arguments
gps2feet(lat, lng) == [of |-> << lat, lng >>]

\* dict d with list d[k] extended by e, the list being created on first use
AppendTo(d, k, e) ==
    IF k \in DOMAIN d
    THEN [d EXCEPT ![k] = Append(@, e)]
    ELSE d @@ (k :> << e >>)

\* the part of the loop body that depends on the line alone (lines 67 to
\* 79): the exception raised, if any, and the entry built, None when the
\* line gives none
parseLine(line) ==
    IF Len(line) > 0
    THEN LET lineElems == split(line, ",")
         IN  IF Len(lineElems) < 19
             THEN [exc |-> "IndexError", entry |-> None]
             ELSE LET routeID == int(lineElems[19])
                  IN  IF ~routeID.ok
                      THEN [exc |-> "ValueError", entry |-> None]
                      ELSE IF KeepRow(routeID.v)
                      THEN LET identifier == lineElems[4] \o "(" \o lineElems[19] \o ")"
                               shapeSeq == int(lineElems[1])
                               lat == float(lineElems[16])
                               lng == float(lineElems[17])
                               time == strptimeTimeOfDay(lineElems[9])
                           IN  IF shapeSeq.ok /\ lat.ok /\ lng.ok /\ time.ok
                               THEN [exc |-> "None",
                                     entry |-> [shapeID |-> identifier,
                                                shapeSeq |-> shapeSeq.v,
                                                lat |-> lat.v, lng |-> lng.v,
                                                point |-> gps2feet(lat.v, lng.v),
                                                time |-> time.v,
                                                line |-> 0]]
                               ELSE [exc |-> "ValueError", entry |-> None]
                      ELSE [exc |-> "None", entry |-> None]
    ELSE [exc |-> "None", entry |-> None]

\* the lines of each file (the lines are computed once for each text)
FileLines == Table([text \in Files |-> readlines(text)])

\* the lines the files have after their first line
DataLines ==
    UNION { { FileLines[text][i] : i \in 2..Len(FileLines[text]) } : text \in Files }

\* parseLine of each line (computed once for each line)
ParsedLine == Table([line \in DataLines |-> parseLine(line)])

\* the body of the loop over the lines of the file (lines 67 to 83): the
\* exception raised, if any, and dict d after the line.  n, the number of
\* the line among the lines after the header, is kept in the entry for the
\* properties only.
processLine(d, line, n) ==
    LET p == ParsedLine[line]
    IN  IF p.entry = None
        THEN [exc |-> p.exc, ret |-> d]
        ELSE [exc |-> p.exc,
              ret |-> AppendTo(d, p.entry.shapeID, [p.entry EXCEPT !.line = n])]

RECURSIVE InsertBySeq(_, _)
\* entry e put into the sorted list after the entries that are not greater
InsertBySeq(sorted, e) ==
    IF Len(sorted) = 0 THEN << e >>
    ELSE IF sorted[Len(sorted)].shapeSeq <= e.shapeSeq THEN Append(sorted, e)
    ELSE Append(InsertBySeq(SubSeq(sorted, 1, Len(sorted) - 1), e), sorted[Len(sorted)])

RECURSIVE StableSortBySeq(_)
StableSortBySeq(entries) ==
    IF Len(entries) = 0 THEN << >>
    ELSE InsertBySeq(StableSortBySeq(SubSeq(entries, 1, Len(entries) - 1)),
                     entries[Len(entries)])

\* the list left in file order
sortByShapeSeq_omitted(shapesEntries) == shapesEntries

\* shapesEntries.sort(key = operator.attrgetter('shapeSeq')) (line 88):
\* a stable sort
sortByShapeSeq(shapesEntries) == StableSortBySeq(shapesEntries)

(***************************************************************************)
(* Pure parts of pathMatch and main.                                       *)
(***************************************************************************)
RECURSIVE InsertStr(_, _)
InsertStr(sorted, e) ==
    IF Len(sorted) = 0 THEN << e >>
    ELSE IF ~StrLess(e, sorted[Len(sorted)]) THEN Append(sorted, e)
    ELSE Append(InsertStr(SubSeq(sorted, 1, Len(sorted) - 1), e), sorted[Len(sorted)])

RECURSIVE SortStr(_)
\* a list of str objects sorted ascending
SortStr(l) ==
    IF Len(l) = 0 THEN << >>
    ELSE InsertStr(SortStr(SubSeq(l, 1, Len(l) - 1)), l[Len(l)])

\* the lists dict.keys() may return: the keys in any order
KeyLists(d) ==
    { l \in [1..Cardinality(DOMAIN d) -> DOMAIN d] :
        \A i, j \in 1..Cardinality(DOMAIN d) : i # j => l[i] # l[j] }

\* the keys left in the order keys() gave them
pathMatch_sort_omitted(ids) == ids

\* datafileIDs.sort() in pathMatch (line 130)
pathMatch_sort(ids) == SortStr(ids)

\* the keys left in the order keys() gave them
main_sort_omitted(ids) == ids

\* datafileIDs.sort() in main (line 173)
main_sort(ids) == SortStr(ids)

\* a loop that ignores the allow-list
Skipped_never(limit, datafileID) == FALSE

\* the test that skips a trace in the matching loop (line 142)
Skipped(limit, datafileID) ==
    limit # None /\ PyStr(datafileID) \notin limit.items

\* pathFinder.constructPath(trace, vistaGraph), external: an uninterpreted
\* application to the trace
constructPath(trace) == [fn |-> "constructPath", trace |-> trace]

\* the key under which a result is filed away (line 151)
ResultKey(datafileID) == datafileID

(***************************************************************************)
(* State.                                                                  *)
(***************************************************************************)
VARIABLES
    pc,           \* the position of the program
    caller,       \* "main" (the command line) or "pathMatch" (a direct call)
    argc,         \* len(argv)
    limitMap,     \* the allow-list argument of pathMatch
    database,     \* TRUE while the topology store connection is held
    fileOpen,     \* TRUE while the input file handle is open
    fileText,     \* the contents of the file as it was opened
    inFile,       \* the lines of the file not read yet
    fileLine,     \* the line read last
    lineNo,       \* the number of lines read after the first
    ret,          \* the dict fillFromFile builds
    gpsTracks,    \* the value fillFromFile returned
    datafileIDs,  \* the sorted identifiers in pathMatch
    limitTodo,    \* the allow-list entries not validated yet
    idx,          \* the position of the matching loop in datafileIDs
    nodesResults, \* the result mapping
    outIDs,       \* the sorted identifiers in main
    outIdx,       \* the position of the output loop in outIDs
    exc,          \* the exception that ended the run, "None" when none did
    console,      \* what was printed: <<stream, message>>
    calls         \* the calls made to the external collaborators

vars == << pc, caller, argc, limitMap, database, fileOpen, fileText, inFile,
           fileLine, lineNo, ret, gpsTracks, datafileIDs, limitTodo, idx,
           nodesResults, outIDs, outIdx, exc, console, calls >>

\* a local variable that has not been assigned
Unbound == [t |-> "unbound"]

Call(fn, arg) == [fn |-> fn, arg |-> arg]

Info(msg) == << "stderr", "INFO", msg >>

Init ==
    /\ pc = "start"
    /\ caller \in { "main", "pathMatch" }
    /\ argc \in (IF caller = "main" THEN { 5, 6 } ELSE { 6 })
    /\ limitMap \in (IF caller = "main" THEN { None } ELSE LimitMaps)
    /\ database = FALSE
    /\ fileOpen = FALSE
    /\ fileText = ""
    /\ inFile = << >>
    /\ fileLine = ""
    /\ lineNo = 0
    /\ ret = EmptyDict
    /\ gpsTracks = Unbound
    /\ datafileIDs = << >>
    /\ limitTodo = {}
    /\ idx = 1
    /\ nodesResults = EmptyDict
    /\ outIDs = << >>
    /\ outIdx = 1
    /\ exc = "None"
    /\ console = << >>
    /\ calls = << >>

\* an exception leaves the program: nothing in it is caught
Raise(e) ==
    /\ exc' = e
    /\ pc' = "raised"

(***************************************************************************)
(* main, lines 156 and 157: too few arguments print the usage and exit.    *)
(***************************************************************************)
main_syntax ==
    /\ pc = "start"
    /\ caller = "main"
    /\ argc < 6
    /\ console' = Append(console, << "stdout", "USAGE", "" >>)
    /\ pc' = "exited"
    /\ UNCHANGED << caller, argc, limitMap, database, fileOpen, fileText, inFile,
                    fileLine, lineNo, ret, gpsTracks, datafileIDs, limitTodo, idx,
                    nodesResults, outIDs, outIdx, exc, calls >>

(***************************************************************************)
(* pathMatch, lines 110 and 111: connect to the topology store.  The call  *)
(* is external and may raise.                                              *)
(***************************************************************************)
pathMatch_connect ==
    /\ pc = "start"
    /\ caller = "main" => argc >= 6
    /\ console' = Append(console, Info("Connect to database..."))
    /\ calls' = Append(calls, Call("connect", None))
    /\ \E ok \in BOOLEAN :
         IF ok
         THEN /\ database' = TRUE
              /\ pc' = "fillGraph"
              /\ exc' = exc
         ELSE /\ database' = database
              /\ Raise("connect")
    /\ UNCHANGED << caller, argc, limitMap, fileOpen, fileText, inFile, fileLine,
                    lineNo, ret, gpsTracks, datafileIDs, limitTodo, idx,
                    nodesResults, outIDs, outIdx >>

(***************************************************************************)
(* pathMatch, lines 114 and 115: read the topology.  External, may raise.  *)
(***************************************************************************)
pathMatch_fillGraph ==
    /\ pc = "fillGraph"
    /\ console' = Append(console, Info("Read topology from database..."))
    /\ calls' = Append(calls, Call("fillGraph", None))
    /\ \E ok \in BOOLEAN :
         IF ok
         THEN /\ pc' = "fillFromFile"
              /\ exc' = exc
         ELSE Raise("fillGraph")
    /\ UNCHANGED << caller, argc, limitMap, database, fileOpen, fileText, inFile,
                    fileLine, lineNo, ret, gpsTracks, datafileIDs, limitTodo, idx,
                    nodesResults, outIDs, outIdx >>

(***************************************************************************)
(* fillFromFile, lines 54 to 63 (and line 118): open the file, read its    *)
(* first line and check it.  A wrong header is reported; the with          *)
(* statement closes the file when None is returned.                        *)
(***************************************************************************)
fillFromFile_open ==
    /\ pc = "fillFromFile"
    /\ \E text \in Files :
         LET lines == FileLines[text]
             first == IF Len(lines) = 0 THEN "" ELSE Head(lines)
             rest == IF Len(lines) = 0 THEN << >> ELSE Tail(lines)
         IN  /\ fileText' = text
             /\ fileLine' = first
             /\ ret' = EmptyDict
             /\ lineNo' = 0
             /\ IF HeaderOk(first)
                THEN /\ console' = Append(console, Info("Read GDB GPS track..."))
                     /\ fileOpen' = TRUE
                     /\ inFile' = rest
                     /\ gpsTracks' = gpsTracks
                     /\ pc' = "lines"
                ELSE /\ console' = console \o
                          << Info("Read GDB GPS track..."),
                             << "stderr", "ERROR", "doesn't have the expected header" >> >>
                     /\ IF fillFromFile_onMismatch = "return None"
                        THEN /\ fileOpen' = FALSE
                             /\ inFile' = inFile
                             /\ gpsTracks' = None
                             /\ pc' = "PathEngine"
                        ELSE /\ fileOpen' = TRUE
                             /\ inFile' = rest
                             /\ gpsTracks' = gpsTracks
                             /\ pc' = "lines"
    /\ UNCHANGED << caller, argc, limitMap, database, datafileIDs, limitTodo, idx,
                    nodesResults, outIDs, outIdx, exc, calls >>

(***************************************************************************)
(* fillFromFile, lines 66 to 83: one pass of the loop over the lines.  An  *)
(* exception leaves the with statement, which closes the file.             *)
(***************************************************************************)
fillFromFile_line ==
    /\ pc = "lines"
    /\ Len(inFile) > 0
    /\ LET line == Head(inFile)
           r == processLine(ret, line, lineNo + 1)
       IN  /\ fileLine' = line
           /\ inFile' = Tail(inFile)
           /\ lineNo' = lineNo + 1
           /\ ret' = r.ret
           /\ IF r.exc = "None"
              THEN /\ fileOpen' = fileOpen
                   /\ pc' = pc
                   /\ exc' = exc
              ELSE /\ fileOpen' = FALSE
                   /\ Raise(r.exc)
    /\ UNCHANGED << caller, argc, limitMap, database, fileText, gpsTracks,
                    datafileIDs, limitTodo, idx, nodesResults, outIDs, outIdx,
                    console, calls >>

(***************************************************************************)
(* fillFromFile, lines 85 to 91: at the end of the file the with statement *)
(* closes it, every list is sorted and the dict is returned.               *)
(***************************************************************************)
fillFromFile_return ==
    /\ pc = "lines"
    /\ Len(inFile) = 0
    /\ fileOpen' = FALSE
    /\ ret' = [k \in DOMAIN ret |-> sortByShapeSeq(ret[k])]
    /\ gpsTracks' = PyDict(ret')
    /\ pc' = "PathEngine"
    /\ UNCHANGED << caller, argc, limitMap, database, fileText, inFile, fileLine,
                    lineNo, datafileIDs, limitTodo, idx, nodesResults, outIDs,
                    outIdx, exc, console, calls >>

(***************************************************************************)
(* pathMatch, lines 121 to 132: build the path finder, take the keys of    *)
(* the tracks and sort them.  keys() of None raises AttributeError.        *)
(***************************************************************************)
pathMatch_PathEngine ==
    /\ pc = "PathEngine"
    /\ calls' = Append(calls, Call("PathEngine", None))
    /\ IF gpsTracks = None
       THEN /\ Raise("AttributeError")
            /\ UNCHANGED << datafileIDs, nodesResults, limitTodo >>
       ELSE /\ \E keys \in KeyLists(gpsTracks.d) :
                 datafileIDs' = pathMatch_sort(keys)
            /\ nodesResults' = EmptyDict
            /\ limitTodo' = IF limitMap = None THEN {} ELSE limitMap.items
            /\ pc' = IF limitTodo' = {} THEN "loop" ELSE "limit"
            /\ exc' = exc
    /\ UNCHANGED << caller, argc, limitMap, database, fileOpen, fileText, inFile,
                    fileLine, lineNo, ret, gpsTracks, idx, outIDs, outIdx, console >>

\* "... %d ..." % value: the text for a number, TypeError for a str
FormatD(value) == IF value.t = "int" THEN Ok(value.v) ELSE Failed

\* datafileID in datafileIDs, for an allow-list entry and the list of str
InList(value, l) == value.t = "str" /\ \E i \in 1..Len(l) : l[i] = value.v

(***************************************************************************)
(* pathMatch, lines 134 to 137: one pass of the loop that validates the    *)
(* allow-list, its entries taken in any order.                             *)
(***************************************************************************)
pathMatch_limit ==
    /\ pc = "limit"
    /\ \E datafileID \in limitTodo :
         /\ limitTodo' = limitTodo \ { datafileID }
         /\ IF InList(datafileID, datafileIDs)
            THEN /\ console' = console
                 /\ pc' = IF limitTodo' = {} THEN "loop" ELSE "limit"
                 /\ exc' = exc
            ELSE IF FormatD(datafileID).ok
            THEN /\ console' = Append(console,
                        << "stderr", "WARNING", FormatD(datafileID).v >>)
                 /\ pc' = IF limitTodo' = {} THEN "loop" ELSE "limit"
                 /\ exc' = exc
            ELSE /\ console' = console
                 /\ Raise("TypeError")
    /\ UNCHANGED << caller, argc, limitMap, database, fileOpen, fileText, inFile,
                    fileLine, lineNo, ret, gpsTracks, datafileIDs, idx,
                    nodesResults, outIDs, outIdx, calls >>

(***************************************************************************)
(* pathMatch, lines 139 to 151: one pass of the matching loop.  The call   *)
(* of the engine is external and may raise.                                *)
(***************************************************************************)
pathMatch_match ==
    /\ pc = "loop"
    /\ idx <= Len(datafileIDs)
    /\ LET datafileID == datafileIDs[idx]
       IN  IF Skipped(limitMap, datafileID)
           THEN /\ idx' = idx + 1
                /\ UNCHANGED << pc, exc, console, calls, nodesResults >>
           ELSE /\ console' = Append(console, Info(datafileID))
                /\ calls' = Append(calls, Call("constructPath", gpsTracks.d[datafileID]))
                /\ \E ok \in BOOLEAN :
                     IF ok
                     THEN /\ nodesResults' =
                               (ResultKey(datafileID) :> constructPath(gpsTracks.d[datafileID]))
                               @@ nodesResults
                          /\ idx' = idx + 1
                          /\ UNCHANGED << pc, exc >>
                     ELSE /\ Raise("constructPath")
                          /\ UNCHANGED << idx, nodesResults >>
    /\ UNCHANGED << caller, argc, limitMap, database, fileOpen, fileText, inFile,
                    fileLine, lineNo, ret, gpsTracks, datafileIDs, limitTodo,
                    outIDs, outIdx >>

(***************************************************************************)
(* pathMatch, line 152: return the result mapping.                         *)
(***************************************************************************)
pathMatch_return ==
    /\ pc = "loop"
    /\ idx > Len(datafileIDs)
    /\ pc' = "returned"
    /\ UNCHANGED << caller, argc, limitMap, database, fileOpen, fileText, inFile,
                    fileLine, lineNo, ret, gpsTracks, datafileIDs, limitTodo, idx,
                    nodesResults, outIDs, outIdx, exc, console, calls >>

(***************************************************************************)
(* main, lines 167 to 173: write the header, take the keys of the result   *)
(* mapping and sort them.                                                  *)
(***************************************************************************)
main_dumpStandardHeader ==
    /\ pc = "returned"
    /\ caller = "main"
    /\ console' = console \o << Info("-- Final --"), Info("Print output...") >>
    /\ calls' = Append(calls, Call("dumpStandardHeader", None))
    /\ \E keys \in KeyLists(nodesResults) :
         outIDs' = main_sort(keys)
    /\ outIdx' = 1
    /\ pc' = IF Len(outIDs') = 0 THEN "done" ELSE "dump"
    /\ UNCHANGED << caller, argc, limitMap, database, fileOpen, fileText, inFile,
                    fileLine, lineNo, ret, gpsTracks, datafileIDs, limitTodo, idx,
                    nodesResults, exc >>

(***************************************************************************)
(* main, lines 174 to 176: one pass of the output loop.                    *)
(***************************************************************************)
main_dumpStandardInfo ==
    /\ pc = "dump"
    /\ calls' = Append(calls, Call("dumpStandardInfo", nodesResults[outIDs[outIdx]]))
    /\ outIdx' = outIdx + 1
    /\ pc' = IF outIdx' > Len(outIDs) THEN "done" ELSE "dump"
    /\ UNCHANGED << caller, argc, limitMap, database, fileOpen, fileText, inFile,
                    fileLine, lineNo, ret, gpsTracks, datafileIDs, limitTodo, idx,
                    nodesResults, outIDs, exc, console >>

Next ==
    \/ main_syntax
    \/ pathMatch_connect
    \/ pathMatch_fillGraph
    \/ fillFromFile_open
    \/ fillFromFile_line
    \/ fillFromFile_return
    \/ pathMatch_PathEngine
    \/ pathMatch_limit
    \/ pathMatch_match
    \/ pathMatch_return
    \/ main_dumpStandardHeader
    \/ main_dumpStandardInfo

Spec == Init /\ [][Next]_vars

(***************************************************************************)
(* Notions the properties are stated with.                                 *)
(***************************************************************************)
\* pathMatch has returned its result mapping
Returned == pc \in { "returned", "dump", "done" }

\* fillFromFile has returned a mapping
Ingested == gpsTracks.t = "dict"

\* fillFromFile has reported a wrong header
SchemaMismatch == \E i \in 1..Len(console) : console[i][2] = "ERROR"

\* the number of warnings reported
Warnings == Cardinality({ i \in 1..Len(console) : console[i][2] = "WARNING" })

\* the first line of the file that was opened
FirstLine == Head(FileLines[fileText])

\* the route identifier of each line after the header, read from column 18
\* of the line, Failed when the line has no such column or no number there
RouteIdOfLine ==
    Table([line \in DataLines |->
             IF Len(split(line, ",")) >= 19 THEN int(split(line, ",")[19]) ELSE Failed])

\* the line of the file a record was made from
LineOf(r) == FileLines[fileText][r.line + 1]

\* the identifier a list of calls of one external function is about
IsEngineCall(c) == c.fn = "constructPath"
IsWriteTrace(c) == c.fn = "dumpStandardInfo"
IsWriterCall(c) == c.fn \in { "dumpStandardHeader", "dumpStandardInfo" }

\* the traces the engine was invoked with, in the order of the invocations
EngineTraces == [i \in 1..Len(SelectSeq(calls, IsEngineCall)) |->
                   SelectSeq(calls, IsEngineCall)[i].arg]

\* the identifiers of these traces
EngineIDs == [i \in 1..Len(EngineTraces) |-> EngineTraces[i][1].shapeID]

\* the results handed to writeTrace, in the order of the calls
Written == [i \in 1..Len(SelectSeq(calls, IsWriteTrace)) |->
              SelectSeq(calls, IsWriteTrace)[i].arg]

\* the identifiers selected by the allow-list
Selected ==
    { id \in DOMAIN gpsTracks.d : limitMap = None \/ PyStr(id) \in limitMap.items }

\* a sequence of identifiers in strictly ascending order
Ascending(ids) == \A i, j \in 1..Len(ids) : i < j => StrLess(ids[i], ids[j])

\* the members of a sequence
Range(q) == { q[i] : i \in 1..Len(q) }

(***************************************************************************)
(* Properties.                                                             *)
(***************************************************************************)
\* C1: when pathMatch returns, the keys of the result mapping are the
\* allow-list if one was given and all its entries are ingested trace
\* identifiers, and all ingested trace identifiers if none was given.
C1_ResultKeys ==
    Returned =>
        /\ limitMap = None => DOMAIN nodesResults = DOMAIN gpsTracks.d
        /\ ( /\ limitMap # None
             /\ \A e \in limitMap.items : e.t = "str" /\ e.v \in DOMAIN gpsTracks.d )
           => DOMAIN nodesResults = { e.v : e \in limitMap.items }

\* a return with an allow-list of ingested identifiers that leaves a trace out
C1_Witness ==
    /\ pc = "returned"
    /\ limitMap # None
    /\ limitMap.items # {}
    /\ \A e \in limitMap.items : e.t = "str" /\ e.v \in DOMAIN gpsTracks.d
    /\ DOMAIN nodesResults # DOMAIN gpsTracks.d

\* C2: an allow-list entry that matches no ingested trace is not fatal: no
\* exception comes of it, and once the entries are validated there is one
\* warning for each such entry.
C2_UnknownEntryNonFatal ==
    /\ exc # "TypeError"
    /\ pc \in { "loop", "returned" } /\ limitMap # None
       => Warnings = Cardinality({ e \in limitMap.items : ~InList(e, datafileIDs) })

C4_NoMatchAfterMismatch ==
    SchemaMismatch => \A i \in 1..Len(calls) : ~IsEngineCall(calls[i])

\* a run that a schema mismatch has ended
C4_Witness ==
    /\ SchemaMismatch
    /\ pc = "raised"
    /\ exc = "AttributeError"

\* C5: every trace fillFromFile returns has its records in non-decreasing
\* order of sequence number, and sorting it again leaves it as it is.
C5_TracesSorted ==
    Ingested =>
        \A k \in DOMAIN gpsTracks.d :
            /\ \A i, j \in 1..Len(gpsTracks.d[k]) :
                 i < j => gpsTracks.d[k][i].shapeSeq <= gpsTracks.d[k][j].shapeSeq
            /\ StableSortBySeq(gpsTracks.d[k]) = gpsTracks.d[k]

\* a returned trace whose rows were in descending order in the file
C5_Witness ==
    /\ Ingested
    /\ \E k \in DOMAIN gpsTracks.d :
         /\ Len(gpsTracks.d[k]) >= 2
         /\ gpsTracks.d[k][1].shapeSeq < gpsTracks.d[k][2].shapeSeq
         /\ gpsTracks.d[k][1].line > gpsTracks.d[k][2].line

\* C6: every record of the mapping fillFromFile returns comes from a row
\* whose route identifier is positive, and every trace of the mapping has
\* a record.
C6_PositiveRoutes ==
    Ingested =>
        \A k \in DOMAIN gpsTracks.d :
            /\ Len(gpsTracks.d[k]) >= 1
            /\ \A i \in 1..Len(gpsTracks.d[k]) :
                 /\ RouteIdOfLine[LineOf(gpsTracks.d[k][i])].ok
                 /\ RouteIdOfLine[LineOf(gpsTracks.d[k][i])].v > 0

\* a returned mapping with a trace, for a file that has a row with a route
\* identifier that is not positive
C6_Witness ==
    /\ Ingested
    /\ \E i \in 2..Len(FileLines[fileText]) :
         /\ RouteIdOfLine[FileLines[fileText][i]].ok
         /\ RouteIdOfLine[FileLines[fileText][i]].v <= 0
    /\ DOMAIN gpsTracks.d # {}

\* C7: the engine is invoked with selected traces only, in ascending order
\* of their identifiers (so at most once for each), with the trace of the
\* identifier; each result is filed under the identifier it was computed
\* for; and when pathMatch returns every selected trace has been matched.
C7_EngineInvocations ==
    /\ ~Ingested => Len(EngineTraces) = 0
    /\ Ingested =>
        /\ \A i \in 1..Len(EngineIDs) :
             /\ EngineIDs[i] \in Selected
             /\ EngineTraces[i] = gpsTracks.d[EngineIDs[i]]
        /\ Ascending(EngineIDs)
        /\ \A k \in DOMAIN nodesResults :
             /\ k \in Range(EngineIDs)
             /\ nodesResults[k] = constructPath(gpsTracks.d[k])
        /\ Returned => Range(EngineIDs) = Selected /\ DOMAIN nodesResults = Selected

\* a return after two invocations, the trace matched first being the one
\* that comes later in the file
C7_Witness ==
    /\ pc = "returned"
    /\ Len(EngineIDs) >= 2
    /\ \A i \in 1..Len(EngineTraces[1]), j \in 1..Len(EngineTraces[2]) :
         EngineTraces[1][i].line > EngineTraces[2][j].line

\* C8: the report writer is called only after pathMatch has returned, so
\* after every call of the engine; writeHeader is called once, before any
\* writeTrace; writeTrace is called with the results in ascending order of
\* their identifiers, once for each key of the result mapping.
C8_WriterAfterBatch ==
    /\ \A i, j \in 1..Len(calls) :
         IsWriterCall(calls[i]) /\ ~IsWriterCall(calls[j]) => j < i
    /\ \A i, j \in 1..Len(calls) :
         calls[i].fn = "dumpStandardHeader" /\ IsWriterCall(calls[j]) /\ i # j
           => i < j /\ IsWriteTrace(calls[j])
    /\ (\E i \in 1..Len(calls) : IsWriterCall(calls[i]))
         => /\ pc \in { "dump", "done" }
            /\ calls[Len(calls) - Len(Written)].fn = "dumpStandardHeader"
    /\ Ascending([i \in 1..Len(Written) |-> Written[i].trace[1].shapeID])
    /\ \A i \in 1..Len(Written) :
         /\ Written[i].trace[1].shapeID \in DOMAIN nodesResults
         /\ Written[i] = nodesResults[Written[i].trace[1].shapeID]
    /\ pc = "done" =>
         { Written[i].trace[1].shapeID : i \in 1..Len(Written) } = DOMAIN nodesResults

\* a finished run of main that has written two traces
C8_Witness ==
    /\ pc = "done"
    /\ Len(Written) >= 2

\* C9: when a run of pathMatch has ended, by a return, after a schema
\* mismatch, by a malformed record or by a failure of the engine, the input
\* file is closed and the connection to the topology store is released.
C9_ResourcesReleased ==
    \/ pc \in { "returned", "done" }
    \/ /\ pc = "raised"
       /\ exc \in { "AttributeError", "IndexError", "ValueError", "constructPath" }
    => ~fileOpen /\ ~database

\* C10: a blank line among the data rows is skipped: ingestion does not
\* fail on it and no record comes of it.
C10_BlankLineSkipped ==
    lineNo >= 1 /\ fileLine = "\n" =>
        /\ exc = "None"
        /\ \A k \in DOMAIN ret : \A i \in 1..Len(ret[k]) : ret[k][i].line # lineNo

====
